---- MODULE Spec2Model ----
(***************************************************************************)
(* Repository initialization of CS01: the repository locator (cs01_path),  *)
(* the tree writer (write_files_from_tree) and the init command, over an   *)
(* explicit model of the filesystem.                                       *)
(*                                                                         *)
(* A path (std::path::PathBuf) is the sequence of its components.  The     *)
(* component "/" in first position is the root directory (an absolute      *)
(* path), ".." is the parent directory, "" in last position is the         *)
(* trailing separator that Path::join leaves when an empty string is       *)
(* joined.  A text (String) is a sequence of tokens.  The filesystem maps  *)
(* each existing location (an absolute path without "/", ".." or "") to    *)
(* its entry.                                                              *)
(***************************************************************************)
EXTENDS Integers, Sequences, FiniteSets, TLC

VARIABLES fs, prev, last, cmd, budget

vars == <<fs, prev, last, cmd, budget>>

Front(s) == SubSeq(s, 1, Len(s) - 1)

LastOf(s) == s[Len(s)]

\* The element of a one-element set: The({e(x) : x \in {v}}) is e with x
\* bound to the value of v, computed once.
The(S) == CHOOSE x \in S : TRUE

Reverse(s) == [i \in 1..Len(s) |-> s[Len(s) + 1 - i]]

IsPrefix(a, b) == Len(a) <= Len(b) /\ SubSeq(b, 1, Len(a)) = a

(***************************************************************************)
(* Paths.                                                                  *)
(***************************************************************************)

\* The current working directory of the process, as a location.
Cwd == <<"r", "w">>

\* PathBuf::from(text): the components of a path given as text.
PathFrom(text) ==
  CASE text = "" -> <<>>
    [] text = "/" -> <<"/">>
    [] text = "/r" -> <<"/", "r">>
    [] text = "/r/w" -> <<"/", "r", "w">>
    [] text = "/r/w/n" -> <<"/", "r", "w", "n">>
    [] text = "/r/w/n/m" -> <<"/", "r", "w", "n", "m">>
    [] text = "/x" -> <<"/", "x">>
    [] text = "n/m" -> <<"n", "m">>
    [] text = "f/x" -> <<"f", "x">>
    [] text = "../x" -> <<"..", "x">>
    [] OTHER -> <<text>>

IsAbsolute(p) == Len(p) > 0 /\ p[1] = "/"

\* The path without the trailing separator.
Trimmed(p) == IF Len(p) > 0 /\ LastOf(p) = "" THEN Front(p) ELSE p

\* Path::join(name): an absolute name replaces the path, an empty name
\* leaves a trailing separator on a path that does not end with one.
Join(p, name) ==
  LET c == PathFrom(name) IN
    IF IsAbsolute(c) THEN c
    ELSE IF c = <<>> THEN (IF p = <<>> \/ p = <<"/">> THEN p ELSE Append(Trimmed(p), ""))
    ELSE Trimmed(p) \o c

\* Path::parent: nothing for the empty path and for the root.
HasParent(p) == Trimmed(p) # <<>> /\ Trimmed(p) # <<"/">>

Parent(p) == Front(Trimmed(p))

\* std::env::current_dir()
current_dir == <<"/">> \o Cwd

(***************************************************************************)
(* The filesystem and its system calls.                                    *)
(***************************************************************************)

DirEntry == [kind |-> "dir", content |-> <<>>]

FileEntry(content) == [kind |-> "file", content |-> content]

\* Path resolution by the operating system: every component but the last
\* is looked up in an existing directory.
RECURSIVE Walk(_, _, _, _)
Walk(f, p, i, cur) ==
  IF i > Len(p) THEN [st |-> "ok", loc |-> cur]
  ELSE IF cur \notin DOMAIN f THEN [st |-> "noent", loc |-> cur]
  ELSE IF f[cur].kind # "dir" THEN [st |-> "notdir", loc |-> cur]
  ELSE Walk(f, p, i + 1,
            IF p[i] = ".." THEN (IF cur = <<>> THEN cur ELSE Front(cur))
            ELSE IF p[i] = "" THEN cur
            ELSE Append(cur, p[i]))

Resolve(f, p) ==
  IF p = <<>> THEN [st |-> "noent", loc |-> <<>>]
  ELSE IF IsAbsolute(p) THEN Walk(f, p, 2, <<>>)
  ELSE Walk(f, p, 1, Cwd)

\* Path::exists, Path::is_file, Path::is_dir
exists(f, p) == \E r \in {Resolve(f, p)} : r.st = "ok" /\ r.loc \in DOMAIN f

is_file(f, p) ==
  \E r \in {Resolve(f, p)} : r.st = "ok" /\ r.loc \in DOMAIN f /\ f[r.loc].kind = "file"

is_dir(f, p) ==
  \E r \in {Resolve(f, p)} : r.st = "ok" /\ r.loc \in DOMAIN f /\ f[r.loc].kind = "dir"

\* Path::canonicalize: the location of an existing path, an error otherwise.
canonicalize(f, p) ==
  The({IF r.st = "ok" /\ r.loc \in DOMAIN f THEN [ok |-> TRUE, loc |-> r.loc]
       ELSE [ok |-> FALSE, loc |-> r.loc] : r \in {Resolve(f, p)}})

\* An injected failure of the filesystem operation that acts on location
\* loc: "open" fails before anything is changed, "data" fails a file write
\* after the file was created or truncated.
NoFail == [loc |-> <<"-">>, mode |-> "none"]

Hits(fail, loc) == fail.mode # "none" /\ fail.loc = loc

Put(f, loc, e) == (loc :> e) @@ f

\* mkdir(2); inj tells that the injected failure struck.
mkdir(f, p, fail) ==
  The({IF r.st = "noent" THEN [st |-> "noent", fs |-> f, inj |-> FALSE]
       ELSE IF r.st = "notdir" THEN [st |-> "err", fs |-> f, inj |-> FALSE]
       ELSE IF r.loc \in DOMAIN f THEN [st |-> "exists", fs |-> f, inj |-> FALSE]
       ELSE IF Hits(fail, r.loc) THEN [st |-> "err", fs |-> f, inj |-> TRUE]
       ELSE [st |-> "ok", fs |-> Put(f, r.loc, DirEntry), inj |-> FALSE]
       : r \in {Resolve(f, p)}})

\* The second attempt of create_dir_all, the parent directories made.
mkdir_again(up, p, fail) ==
  IF ~up.ok THEN up
  ELSE The({IF m2.st = "ok" THEN [ok |-> TRUE, fs |-> m2.fs, inj |-> FALSE]
            ELSE [ok |-> is_dir(up.fs, p), fs |-> up.fs, inj |-> m2.inj]
            : m2 \in {mkdir(up.fs, p, fail)}})

\* std::fs::create_dir_all
RECURSIVE create_dir_all(_, _, _)
create_dir_all(f, p, fail) ==
  IF Trimmed(p) = <<>> THEN [ok |-> TRUE, fs |-> f, inj |-> FALSE]
  ELSE The({IF m.st = "ok" THEN [ok |-> TRUE, fs |-> m.fs, inj |-> FALSE]
            ELSE IF m.st # "noent" THEN [ok |-> is_dir(f, p), fs |-> f, inj |-> m.inj]
            ELSE IF ~HasParent(p) THEN [ok |-> FALSE, fs |-> f, inj |-> FALSE]
            ELSE The({mkdir_again(up, p, fail) : up \in {create_dir_all(f, Parent(p), fail)}})
            : m \in {mkdir(f, p, fail)}})

\* A write that creates or truncates the file and reports success without
\* writing the content.
fs_write_truncating(f, p, content, fail) ==
  The({IF r.st # "ok" \/ LastOf(p) \in {"", ".."} THEN [ok |-> FALSE, fs |-> f, inj |-> FALSE]
       ELSE IF r.loc \in DOMAIN f /\ f[r.loc].kind = "dir"
         THEN [ok |-> FALSE, fs |-> f, inj |-> FALSE]
       ELSE IF Hits(fail, r.loc) /\ fail.mode = "open"
         THEN [ok |-> FALSE, fs |-> f, inj |-> TRUE]
       ELSE [ok |-> ~Hits(fail, r.loc), fs |-> Put(f, r.loc, FileEntry(<<>>)),
             inj |-> Hits(fail, r.loc)]
       : r \in {Resolve(f, p)}})

\* std::fs::write: create or truncate the file, then write the content.
fs_write(f, p, content, fail) ==
  The({IF r.st # "ok" \/ LastOf(p) \in {"", ".."} THEN [ok |-> FALSE, fs |-> f, inj |-> FALSE]
       ELSE IF r.loc \in DOMAIN f /\ f[r.loc].kind = "dir"
         THEN [ok |-> FALSE, fs |-> f, inj |-> FALSE]
       ELSE IF Hits(fail, r.loc) /\ fail.mode = "open"
         THEN [ok |-> FALSE, fs |-> f, inj |-> TRUE]
       ELSE IF Hits(fail, r.loc)
         THEN [ok |-> FALSE, fs |-> Put(f, r.loc, FileEntry(<<>>)), inj |-> TRUE]
       ELSE [ok |-> TRUE, fs |-> Put(f, r.loc, FileEntry(content)), inj |-> FALSE]
       : r \in {Resolve(f, p)}})

(***************************************************************************)
(* Texts.                                                                  *)
(***************************************************************************)

Whitespace == {" ", "\n", "\t"}

\* str::trim
RECURSIVE trim_start(_)
trim_start(t) == IF t # <<>> /\ t[1] \in Whitespace THEN trim_start(Tail(t)) ELSE t

RECURSIVE trim_end(_)
trim_end(t) == IF t # <<>> /\ LastOf(t) \in Whitespace THEN trim_end(Front(t)) ELSE t

trim(t) == trim_end(trim_start(t))

\* str::starts_with
starts_with(t, pat) == IsPrefix(pat, t)

\* A byte sequence that is not UTF-8: fs::read_to_string fails on it.
NotUtf8 == "\\xff"

read_to_string(f, p) ==
  The({IF r.st = "ok" /\ r.loc \in DOMAIN f /\ f[r.loc].kind = "file"
          /\ \A i \in 1..Len(f[r.loc].content) : f[r.loc].content[i] # NotUtf8
       THEN [ok |-> TRUE, text |-> f[r.loc].content]
       ELSE [ok |-> FALSE, text |-> <<>>] : r \in {Resolve(f, p)}})

(***************************************************************************)
(* modules/config.rs: the configuration serializer.  A JSON value is a     *)
(* record: t its type, s the text of a scalar (a sequence of tokens, as    *)
(* every text of the model), items the members of an object in the order   *)
(* the map iterates them, or the elements of an array.                     *)
(***************************************************************************)

JNull == [t |-> "null", s |-> <<"null">>, items |-> <<>>]

JBool(b) == [t |-> "bool", s |-> IF b THEN <<"true">> ELSE <<"false">>, items |-> <<>>]

JNumber(text) == [t |-> "number", s |-> <<text>>, items |-> <<>>]

JString(text) == [t |-> "string", s |-> text, items |-> <<>>]

JObject(items) == [t |-> "object", s |-> <<>>, items |-> items]

JArray(items) == [t |-> "array", s |-> <<>>, items |-> items]

Member(k, v) == [k |-> k, v |-> v]

\* serde_json's string escaping: a quote, a backslash and a line break are
\* written as two-character escapes, every other token as it is.
escape_char(c) ==
  CASE c = "\"" -> "\\\""
    [] c = "\\" -> "\\\\"
    [] c = "\n" -> "\\n"
    [] OTHER -> c

escape(text) == [i \in DOMAIN text |-> escape_char(text[i])]

\* serde_json::to_string: compact JSON.
RECURSIVE to_json(_)
RECURSIVE members_json(_, _, _)
members_json(items, i, isObject) ==
  IF i > Len(items) THEN <<>>
  ELSE (IF i > 1 THEN <<",">> ELSE <<>>)
       \o (IF isObject THEN <<"\"", escape_char(items[i].k), "\"", ":">> ELSE <<>>)
       \o to_json(IF isObject THEN items[i].v ELSE items[i])
       \o members_json(items, i + 1, isObject)

to_json(val) ==
  CASE val.t = "object" -> <<"{">> \o members_json(val.items, 1, TRUE) \o <<"}">>
    [] val.t = "array" -> <<"[">> \o members_json(val.items, 1, FALSE) \o <<"]">>
    [] val.t = "string" -> <<"\"">> \o escape(val.s) \o <<"\"">>
    [] OTHER -> val.s

\* The text of one setting's value.
string_value(val) ==
  IF val.t = "object" THEN to_json(val)
  ELSE IF val.t = "string" THEN val.s
  ELSE to_json(val)

RECURSIVE settings_text(_, _)
settings_text(settings, i) ==
  IF i > Len(settings) THEN <<>>
  ELSE <<"  ", settings[i].k, " = ">> \o string_value(settings[i].v) \o <<"\n">>
       \o settings_text(settings, i + 1)

header_text(section_name, subsection_name) ==
  <<"[", section_name>>
  \o (IF subsection_name = "" THEN <<>> ELSE <<" \"", subsection_name, "\"">>)
  \o <<"]", "\n">>

RECURSIVE subsections_text(_, _, _)
subsections_text(section_name, subsections, i) ==
  IF i > Len(subsections) THEN [ok |-> TRUE, text |-> <<>>]
  ELSE IF subsections[i].v.t # "object" THEN [ok |-> FALSE, text |-> <<>>]
  ELSE The({IF ~rest.ok THEN rest
            ELSE [ok |-> TRUE,
                  text |-> header_text(section_name, subsections[i].k)
                           \o settings_text(subsections[i].v.items, 1) \o rest.text]
            : rest \in {subsections_text(section_name, subsections, i + 1)}})

RECURSIVE sections_text(_, _)
sections_text(obj, i) ==
  IF i > Len(obj) THEN [ok |-> TRUE, text |-> <<>>]
  ELSE IF obj[i].v.t # "object" THEN [ok |-> FALSE, text |-> <<>>]
  ELSE The({IF ~here.ok THEN here
            ELSE The({IF ~rest.ok THEN rest
                      ELSE [ok |-> TRUE, text |-> here.text \o rest.text]
                      : rest \in {sections_text(obj, i + 1)}})
            : here \in {subsections_text(obj[i].k, obj[i].v.items, 1)}})

\* obj_to_str without the test for an empty object.
obj_to_str_accepting_empty(config_obj) ==
  IF config_obj.t # "object" THEN [ok |-> FALSE, text |-> <<>>]
  ELSE sections_text(config_obj.items, 1)

obj_to_str(config_obj) ==
  IF config_obj.t # "object" \/ config_obj.items = <<>> THEN [ok |-> FALSE, text |-> <<>>]
  ELSE sections_text(config_obj.items, 1)

(***************************************************************************)
(* modules/files.rs: the repository locator.                               *)
(***************************************************************************)

CoreMarker == <<"[", "core", "]">>

\* The bare-repository test of one directory.
HasBareConfig(f, dir) ==
  LET potential_config == Join(dir, "config") IN
    /\ exists(f, potential_config)
    /\ is_file(f, potential_config)
    /\ \E content \in {read_to_string(f, potential_config)} :
         content.ok /\ starts_with(trim(content.text), CoreMarker)

\* The standard-repository test of one directory.
HasCs01Dir(f, dir) ==
  LET potential_cs01 == Join(dir, ".CS01") IN
    exists(f, potential_cs01) /\ is_dir(f, potential_cs01)

None == [some |-> FALSE, path |-> <<>>]

Some(p) == [some |-> TRUE, path |-> p]

RECURSIVE cs01_loop(_, _, _)
cs01_loop(f, relative_path, dir) ==
  IF HasBareConfig(f, dir) THEN Some(Join(dir, relative_path))
  ELSE IF HasCs01Dir(f, dir) THEN Some(Join(dir, relative_path))
  ELSE IF ~HasParent(dir) THEN None
  ELSE cs01_loop(f, relative_path, Parent(dir))

cs01_path(f, relative_path, start_dir) == cs01_loop(f, relative_path, start_dir)

in_repo(f, cwd) == cs01_path(f, "", cwd).some

(***************************************************************************)
(* modules/files.rs: the tree writer.                                      *)
(***************************************************************************)

\* TreeNode::File and TreeNode::Directory; the children of a directory are
\* listed as <<name, node>> members.
File(content) == [kind |-> "File", content |-> content, children |-> <<>>]

Directory(children) == [kind |-> "Directory", content |-> <<>>, children |-> children]

Child(name, node) == [name |-> name, node |-> node]

\* What stands at a path: "dir", "file" or "none".
KindOf(f, p) ==
  The({IF r.st = "ok" /\ r.loc \in DOMAIN f THEN f[r.loc].kind ELSE "none"
       : r \in {Resolve(f, p)}})

\* The order in which a HashMap yields its members is unspecified: ord
\* rotates the listed order and may reverse it.
Rotate(s, k) ==
  IF Len(s) = 0 THEN s
  ELSE [i \in 1..Len(s) |-> s[((i - 1 + k) % Len(s)) + 1]]

IterOrder(children, ord) ==
  IF ord.rev THEN Reverse(Rotate(children, ord.rot)) ELSE Rotate(children, ord.rot)

\* The result of a write in progress: the filesystem, Ok or the error (res,
\* whether it carries a path, and the path of the failed operation), and the
\* record of what stood at a directory node's path when each of its children
\* started being processed.
WriteStart(f) ==
  [fs |-> f, res |-> "ok", ctx |-> FALSE, errpath |-> <<>>, inj |-> FALSE, log |-> {}]

WriteError(st, f, ctx, p, inj) ==
  [st EXCEPT !.fs = f, !.res = "io", !.ctx = ctx, !.errpath = p, !.inj = inj]

\* The File arm without its test of overwrite: the file is written whether
\* or not the path exists.
write_file_node_always(content, prefix, options, io, st) ==
  IF options.dry_run THEN st
  ELSE The({IF ~d.ok THEN WriteError(st, d.fs, FALSE, Parent(prefix), d.inj)
            ELSE The({IF w.ok THEN [st EXCEPT !.fs = w.fs]
                      ELSE WriteError(st, w.fs, TRUE, prefix, w.inj)
                      : w \in {fs_write(d.fs, prefix, content, io.fail)}})
            : d \in {IF HasParent(prefix) THEN create_dir_all(st.fs, Parent(prefix), io.fail)
                     ELSE [ok |-> TRUE, fs |-> st.fs, inj |-> FALSE]}})

\* The File arm opening its file with create_new: a path that exists is an
\* error instead of being skipped.
write_file_node_strict(content, prefix, options, io, st) ==
  IF exists(st.fs, prefix) THEN WriteError(st, st.fs, TRUE, prefix, FALSE)
  ELSE write_file_node_always(content, prefix, options, io, st)

\* The File arm of write_files_from_tree.
write_file_node(content, prefix, options, io, st) ==
  IF ~options.overwrite /\ exists(st.fs, prefix) THEN st
  ELSE IF options.dry_run THEN st
  ELSE The({IF ~d.ok THEN WriteError(st, d.fs, FALSE, Parent(prefix), d.inj)
            ELSE The({IF w.ok THEN [st EXCEPT !.fs = w.fs]
                      ELSE WriteError(st, w.fs, TRUE, prefix, w.inj)
                      : w \in {fs_write(d.fs, prefix, content, io.fail)}})
            : d \in {IF HasParent(prefix) THEN create_dir_all(st.fs, Parent(prefix), io.fail)
                     ELSE [ok |-> TRUE, fs |-> st.fs, inj |-> FALSE]}})

\* The creation step without its test of dry_run.
write_dir_node_eager(prefix, options, io, st) ==
  IF exists(st.fs, prefix) THEN st
  ELSE The({IF d.ok THEN [st EXCEPT !.fs = d.fs]
            ELSE WriteError(st, d.fs, TRUE, prefix, d.inj)
            : d \in {create_dir_all(st.fs, prefix, io.fail)}})

\* The creation step left out: a directory appears only when a file below
\* it is written.
write_dir_node_lazy(prefix, options, io, st) == st

\* The creation step of the Directory arm.
write_dir_node(prefix, options, io, st) ==
  IF exists(st.fs, prefix) THEN st
  ELSE IF options.dry_run THEN st
  ELSE The({IF d.ok THEN [st EXCEPT !.fs = d.fs]
            ELSE WriteError(st, d.fs, TRUE, prefix, d.inj)
            : d \in {create_dir_all(st.fs, prefix, io.fail)}})

\* The record of a child that starts being processed.
ChildStart(st, prefix, name, reach) ==
  [st EXCEPT !.log = @ \cup {[dir |-> prefix, child |-> name, reach |-> reach,
                              at |-> KindOf(st.fs, prefix)]}]

RECURSIVE write_files_from_tree(_, _, _, _, _)
RECURSIVE write_children(_, _, _, _, _, _, _)
write_children(children, i, prefix, reach, options, io, st) ==
  IF i > Len(children) \/ st.res # "ok" THEN st
  ELSE The({write_children(children, i + 1, prefix, reach, options, io, done)
            : done \in {The({write_files_from_tree(children[i].node, path, options, io, started)
                             : started \in {ChildStart(st, prefix, children[i].name, reach)},
                               path \in {Join(prefix, children[i].name)}})}})

write_files_from_tree(tree, prefix, options, io, st) ==
  IF tree.kind = "File" THEN write_file_node(tree.content, prefix, options, io, st)
  ELSE The({IF made.res # "ok" THEN made
            ELSE The({write_children(order, 1, prefix, reach, options, io, made)
                      : order \in {IterOrder(tree.children, io.ord)},
                        reach \in {KindOf(st.fs, prefix)}})
            : made \in {write_dir_node(prefix, options, io, st)}})

(***************************************************************************)
(* commands/init.rs: the init command.                                     *)
(***************************************************************************)

sample_hooks ==
  <<"applypatch-msg.sample", "commit-msg.sample", "fsmonitor-watchman.sample",
    "post-update.sample", "pre-applypatch.sample", "pre-commit.sample",
    "pre-merge-commit.sample", "prepare-commit-msg.sample", "pre-push.sample",
    "pre-rebase.sample", "pre-receive.sample", "push-to-checkout.sample",
    "sendemail-validate.sample", "update.sample">>

branch_ref(initial_branch) == <<"ref: refs/heads/", initial_branch>>

config_json(bare) ==
  JObject(<<Member("core", JObject(<<Member("", JObject(<<
    Member("bare", JBool(bare)),
    Member("repositoryformatversion", JNumber("0")),
    Member("filemode", JBool(TRUE)),
    Member("logallrefupdates", JBool(TRUE))>>))>>))>>)

description_text ==
  <<"Unnamed repository; edit this file 'description' to name the repository.", "\n">>

exclude_text ==
  <<"# cs01 ls-files --others --exclude-from=.cs01/info/exclude", "\n",
    "# Lines that start with '#' are comments.", "\n",
    "# For a project mostly in C, the following would be a good set of", "\n",
    "# exclude patterns (uncomment them if you want to use them):", "\n",
    "# *.[oa]", "\n", "# *~", "\n">>

hooks_node == Directory([i \in 1..Len(sample_hooks) |-> Child(sample_hooks[i], File(<<>>))])

internal_structure(config_content, initial_branch) ==
  Directory(<<
    Child("HEAD", File(branch_ref(initial_branch) \o <<"\n">>)),
    Child("config", File(config_content)),
    Child("description", File(description_text)),
    Child("hooks", hooks_node),
    Child("info", Directory(<<Child("exclude", File(exclude_text))>>)),
    Child("objects", Directory(<<Child("info", Directory(<<>>)),
                                 Child("pack", Directory(<<>>))>>)),
    Child("refs", Directory(<<
      Child("heads", Directory(<<Child(initial_branch, File(branch_ref(initial_branch)))>>)),
      Child("tags", Directory(<<>>))>>))>>)

tree_to_write(bare, initial_branch) ==
  The({IF bare THEN node ELSE Directory(<<Child(".CS01", node)>>)
       : node \in {internal_structure(obj_to_str(config_json(bare)).text, initial_branch)}})

init_options == [overwrite |-> FALSE, dry_run |-> FALSE]

(***************************************************************************)
(* modules/repo_structure.rs: the tree builder, which states the layout a  *)
(* second time, on its own.                                                *)
(***************************************************************************)

build_branch_ref(initial_branch) == <<"ref: refs/heads/", initial_branch>>

build_config_json(bare) ==
  JObject(<<Member("core", JObject(<<Member("", JObject(<<
    Member("bare", JBool(bare)),
    Member("repositoryformatversion", JNumber("0")),
    Member("filemode", JBool(TRUE)),
    Member("logallrefupdates", JBool(TRUE))>>))>>))>>)

build_sample_hooks ==
  <<"applypatch-msg.sample", "commit-msg.sample", "fsmonitor-watchman.sample",
    "post-update.sample", "pre-applypatch.sample", "pre-commit.sample",
    "pre-merge-commit.sample", "prepare-commit-msg.sample", "pre-push.sample",
    "pre-rebase.sample", "pre-receive.sample", "push-to-checkout.sample",
    "sendemail-validate.sample", "update.sample">>

build_hooks ==
  Directory([i \in 1..Len(build_sample_hooks) |-> Child(build_sample_hooks[i], File(<<>>))])

build_info ==
  Directory(<<Child("exclude", File(
    <<"# cs01 ls-files --others --exclude-from=.cs01/info/exclude", "\n",
      "# Lines that start with '#' are comments.", "\n",
      "# For a project mostly in C, the following would be a good set of", "\n",
      "# exclude patterns (uncomment them if you want to use them):", "\n",
      "# *.[oa]", "\n", "# *~", "\n">>))>>)

build_objects ==
  Directory(<<Child("info", Directory(<<>>)), Child("pack", Directory(<<>>))>>)

build_refs(initial_branch) ==
  Directory(<<
    Child("heads", Directory(<<Child(initial_branch, File(build_branch_ref(initial_branch)))>>)),
    Child("tags", Directory(<<>>))>>)

build_internal_structure(config_content, initial_branch) ==
  Directory(<<
    Child("HEAD", File(build_branch_ref(initial_branch) \o <<"\n">>)),
    Child("config", File(config_content)),
    Child("description", File(
      <<"Unnamed repository; edit this file 'description' to name the repository.", "\n">>)),
    Child("hooks", build_hooks),
    Child("info", build_info),
    Child("objects", build_objects),
    Child("refs", build_refs(initial_branch))>>)

\* build_repo_tree that never wraps the structure in a .CS01 directory.
build_repo_tree_unwrapped(bare, initial_branch) ==
  The({IF ~config_content.ok THEN [ok |-> FALSE, tree |-> Directory(<<>>)]
       ELSE [ok |-> TRUE,
             tree |-> build_internal_structure(config_content.text, initial_branch)]
       : config_content \in {obj_to_str(build_config_json(bare))}})

build_repo_tree(bare, initial_branch) ==
  The({IF ~config_content.ok THEN [ok |-> FALSE, tree |-> Directory(<<>>)]
       ELSE The({[ok |-> TRUE,
                  tree |-> IF bare THEN node ELSE Directory(<<Child(".CS01", node)>>)]
                 : node \in {build_internal_structure(config_content.text, initial_branch)}})
       : config_content \in {obj_to_str(build_config_json(bare))}})

root_path_of(path) == IF path = "." THEN current_dir ELSE PathFrom(path)

repo_dir_of(bare, root_path) == IF bare THEN root_path ELSE Join(root_path, ".CS01")

is_reinit(f, bare, repo_dir) ==
  IF bare THEN exists(f, Join(repo_dir, "HEAD")) \/ exists(f, Join(repo_dir, "objects"))
  ELSE exists(f, repo_dir)

\* The outcome of init: res is "ok", "nested" (the refusal, naming the
\* location named) or "io" (a propagated I/O error).
InitOutcome(f, res, reinit, named, bare, w) ==
  [fs |-> f, res |-> res, reinit |-> reinit, named |-> named,
   action |-> IF res # "ok" THEN "" ELSE IF reinit THEN "Reinitialized existing"
              ELSE "Initialized empty",
   repo_type |-> IF res # "ok" THEN "" ELSE IF bare THEN "bare" ELSE "standard",
   ctx |-> w.ctx, errpath |-> w.errpath, inj |-> w.inj, log |-> w.log]

\* The nested-repository check: "pass", "nested" or "io" (canonicalize
\* failed), with the location of the root that was found.
compare_roots(existing_root, target_root) ==
  IF ~existing_root.ok \/ ~target_root.ok THEN [res |-> "io", named |-> <<>>]
  ELSE IF existing_root.loc # target_root.loc
    THEN [res |-> "nested", named |-> existing_root.loc]
  ELSE [res |-> "pass", named |-> <<>>]

\* The check without its test of is_reinit and of the root found: any
\* repository found from the target is a refusal.
nested_check_any_root(f, reinit, root_path) ==
  The({IF ~existing_root.some THEN [res |-> "pass", named |-> <<>>]
       ELSE The({IF e.ok THEN [res |-> "nested", named |-> e.loc]
                 ELSE [res |-> "io", named |-> <<>>]
                 : e \in {canonicalize(f, existing_root.path)}})
       : existing_root \in {cs01_path(f, "", root_path)}})

nested_check(f, reinit, root_path) ==
  IF reinit THEN [res |-> "pass", named |-> <<>>]
  ELSE The({IF ~existing_root.some THEN [res |-> "pass", named |-> <<>>]
            ELSE The({compare_roots(e, t) : e \in {canonicalize(f, existing_root.path)},
                                            t \in {canonicalize(f, root_path)}})
            : existing_root \in {cs01_path(f, "", root_path)}})

\* Lines 22-25: the target directory is created when it does not exist.
create_root(f, root_path, io) ==
  IF exists(f, root_path) THEN [ok |-> TRUE, fs |-> f, inj |-> FALSE]
  ELSE create_dir_all(f, root_path, io.fail)

\* Lines 27-206, the target directory made.
init_in(made, bare, initial_branch, root_path, io, reinit, check, config_content) ==
  IF ~made.ok
    THEN InitOutcome(made.fs, "io", FALSE, <<>>, bare,
                     WriteError(WriteStart(made.fs), made.fs, FALSE, root_path, made.inj))
  ELSE IF check.res = "io" THEN InitOutcome(made.fs, "io", reinit, <<>>, bare, WriteStart(made.fs))
  ELSE IF check.res = "nested"
    THEN InitOutcome(made.fs, "nested", reinit, check.named, bare, WriteStart(made.fs))
  ELSE IF ~config_content.ok
    THEN InitOutcome(made.fs, "config", reinit, <<>>, bare, WriteStart(made.fs))
  ELSE The({InitOutcome(w.fs, w.res, reinit, <<>>, bare, w)
            : w \in {The({write_files_from_tree(tree, root_path, init_options, io, none)
                          : tree \in {tree_to_write(bare, initial_branch)},
                            none \in {WriteStart(made.fs)}})}})

init(f, bare, initial_branch, path, io) ==
  The({The({The({The({init_in(made, bare, initial_branch, root_path, io, reinit, check, config)
                      : check \in {nested_check(made.fs, reinit, root_path)},
                        config \in {obj_to_str(config_json(bare))}})
                 : reinit \in {made.ok /\ is_reinit(made.fs, bare, repo_dir_of(bare, root_path))}})
            : made \in {create_root(f, root_path, io)}})
       : root_path \in {root_path_of(path)}})

(***************************************************************************)
(* The state machine.  fs is the filesystem, prev the filesystem before    *)
(* the last operation, last the last operation with its arguments and      *)
(* outcome, cmd the init command line most recently run with what happened *)
(* around it, budget the numbers of operations taken so far.               *)
(***************************************************************************)

\* Bounds of the exploration.
MaxOps == 1

MaxReruns == 1

MaxEnv == 1

MaxRemoves == 1

MaxRot == 0

Bools == {TRUE, FALSE}

Targets == {"/r/w/n", "n", "."}

Branches == {"main", "dev", "", "/x"}

Orders == [rev : Bools, rot : 0..MaxRot]

\* The location a path names when no ".." is involved.
LocOf(p) == IF IsAbsolute(p) THEN Tail(Trimmed(p)) ELSE Cwd \o Trimmed(p)

\* The locations that differ between two filesystems.
Changed(f, g) ==
  {q \in DOMAIN f \cup DOMAIN g : q \notin DOMAIN f \/ q \notin DOMAIN g \/ f[q] # g[q]}

\* Where an injected failure may strike an init: at the target directory
\* and at some nodes of the layout.
InitFails(bare, path) ==
  LET root == LocOf(root_path_of(path))
      repo == LocOf(repo_dir_of(bare, root_path_of(path)))
  IN {NoFail,
      [loc |-> root, mode |-> "open"],
      [loc |-> repo \o <<"config">>, mode |-> "data"],
      [loc |-> repo \o <<"HEAD">>, mode |-> "open"],
      [loc |-> repo \o <<"hooks">>, mode |-> "open"],
      [loc |-> repo \o <<"refs", "heads">>, mode |-> "open"]}

\* Trees handed to the writer directly.
Trees ==
  [t1 |-> Directory(<<Child("file.txt", File(<<"hello">>))>>),
   t2 |-> Directory(<<Child("d", Directory(<<Child("a", File(<<"A">>)),
                                             Child("e", Directory(<<>>))>>)),
                      Child("config", File(<<"x">>))>>),
   t3 |-> File(<<"solo">>),
   t4 |-> Directory(<<>>)]

Bases == {"/r/w/n", "/r/w", "n/m"}

WriteFails ==
  {NoFail,
   [loc |-> <<"r", "w", "n">>, mode |-> "open"],
   [loc |-> <<"r", "w", "n", "d">>, mode |-> "open"],
   [loc |-> <<"r", "w", "config">>, mode |-> "data"]}

Starts == {"/r", "/r/w", "/r/w/n", "/r/w/n/m", "n", "n/m", ""}

\* What the environment may put on disk, and where.
UserText == <<"user">>

PaddedCore == <<"\n", " ">> \o CoreMarker \o <<"\n", "x", "\n">>

EnvPuts ==
  {[loc |-> <<"r", "config">>, e |-> FileEntry(PaddedCore)],
   [loc |-> <<"r", ".CS01">>, e |-> FileEntry(UserText)],
   [loc |-> <<"r", "w", "n">>, e |-> DirEntry],
   [loc |-> <<"r", "w", "n">>, e |-> FileEntry(UserText)],
   [loc |-> <<"r", "w", "config">>, e |-> FileEntry(UserText)],
   [loc |-> <<"r", "w", "config">>, e |-> FileEntry(PaddedCore)],
   [loc |-> <<"r", "w", "config">>, e |-> FileEntry(CoreMarker \o <<NotUtf8>>)],
   [loc |-> <<"r", "w", "config">>, e |-> DirEntry],
   [loc |-> <<"r", "w", ".CS01">>, e |-> DirEntry],
   [loc |-> <<"r", "w", ".CS01">>, e |-> FileEntry(UserText)],
   [loc |-> <<"r", "w", "HEAD">>, e |-> FileEntry(UserText)],
   [loc |-> <<"r", "w", "hooks">>, e |-> FileEntry(UserText)]}

\* The files the environment may delete: of the sample hooks, one.
Removable(loc) ==
  \A i \in 1..Len(sample_hooks) :
    LastOf(loc) = sample_hooks[i] => sample_hooks[i] = "update.sample"

BaseFs == (<<>> :> DirEntry) @@ (<<"r">> :> DirEntry) @@ (<<"r", "w">> :> DirEntry)

DefaultIo == [ord |-> [rev |-> FALSE, rot |-> 0], fail |-> NoFail]

\* The filesystems the exploration starts from: nothing but the working
\* directory, and a repository marker in its parent.
Seeds == {BaseFs, Put(BaseFs, <<"r", ".CS01">>, DirEntry)}

NoOp == [op |-> "none", args |-> <<>>, out |-> <<>>]

NoCmd ==
  [valid |-> FALSE, bare |-> FALSE, initial_branch |-> "", path |-> "", res |-> "",
   inj |-> FALSE, clean |-> "", wrote |-> {}, pending |-> {}, prior |-> "",
   priorInj |-> FALSE, priorClean |-> "", priorWrote |-> {}, removed |-> {}]

Init ==
  /\ fs \in Seeds
  /\ prev = fs
  /\ last = NoOp
  /\ cmd = NoCmd
  /\ budget = [ops |-> 0, reruns |-> 0, env |-> 0, removes |-> 0, writes |-> 0]

\* The directories an earlier session may have run init in: the working
\* directory, a directory below it and a directory above it.
EarlierTargets == {".", "/r/w/n", "/r"}

\* An earlier session has initialized a standard repository.
EarlierInit ==
  /\ last.op = "none"
  /\ fs = BaseFs
  /\ \E path \in EarlierTargets :
       \E r \in {init(fs, FALSE, "main", path, DefaultIo)} :
         /\ fs' = r.fs
         /\ prev' = r.fs
         /\ last' = [op |-> "earlier", args |-> [path |-> path], out |-> <<>>]
  /\ UNCHANGED <<cmd, budget>>

\* The state after a run of init with outcome r; clean is the outcome the
\* same run has when no filesystem operation is made to fail, before the
\* command line that was run before this one when this is a rerun of it,
\* NoCmd otherwise.
Ran(bare, initial_branch, path, fail, r, clean, before) ==
  /\ fs' = r.fs
  /\ prev' = fs
  /\ last' = [op |-> "init",
              args |-> [bare |-> bare, initial_branch |-> initial_branch, path |-> path,
                        fail |-> IF r.inj THEN fail ELSE NoFail],
              out |-> [res |-> r.res, reinit |-> r.reinit, named |-> r.named,
                       action |-> r.action, repo_type |-> r.repo_type,
                       ctx |-> r.ctx, errpath |-> r.errpath, log |-> r.log]]
  /\ cmd' = [valid |-> TRUE, bare |-> bare, initial_branch |-> initial_branch,
             path |-> path, res |-> r.res, inj |-> r.inj, clean |-> clean.res,
             wrote |-> Changed(fs, r.fs), pending |-> {}, prior |-> before.res,
             priorInj |-> before.inj, priorClean |-> before.clean,
             priorWrote |-> before.wrote, removed |-> before.pending]

\* init [--bare] [--initial-branch <name>] [<path>], possibly with a
\* filesystem operation that fails.
InitCmd ==
  /\ budget.ops < MaxOps
  /\ \E bare \in Bools, initial_branch \in Branches, path \in Targets, ord \in Orders :
       \E clean \in {init(fs, bare, initial_branch, path, [ord |-> ord, fail |-> NoFail])} :
         \E fail \in InitFails(bare, path) :
           \E r \in {IF fail = NoFail THEN clean
                     ELSE init(fs, bare, initial_branch, path, [ord |-> ord, fail |-> fail])} :
             Ran(bare, initial_branch, path, fail, r, clean, NoCmd)
  /\ budget' = [budget EXCEPT !.ops = @ + 1]

\* The same command line run again, every filesystem operation succeeding
\* where the filesystem allows it.
ReInit ==
  /\ cmd.valid
  /\ budget.reruns < MaxReruns
  /\ \E ord \in Orders :
    /\ \E r \in {init(fs, cmd.bare, cmd.initial_branch, cmd.path,
                        [ord |-> ord, fail |-> NoFail])} :
         Ran(cmd.bare, cmd.initial_branch, cmd.path, NoFail, r, r, cmd)
    /\ budget' = [budget EXCEPT !.reruns = @ + 1]

\* A direct call of write_files_from_tree; what follows it is no rerun of
\* the init before it.
WriteTree ==
  \E id \in DOMAIN Trees, base \in Bases, overwrite \in Bools, dry_run \in Bools,
     ord \in Orders, fail \in WriteFails :
    /\ budget.ops < MaxOps
    /\ \E w \in {write_files_from_tree(Trees[id], PathFrom(base),
                                       [overwrite |-> overwrite, dry_run |-> dry_run],
                                       [ord |-> ord, fail |-> fail], WriteStart(fs))} :
       /\ fs' = w.fs
       /\ prev' = fs
       /\ last' = [op |-> "write",
                   args |-> [tree |-> id, base |-> base, overwrite |-> overwrite,
                             dry_run |-> dry_run, fail |-> IF w.inj THEN fail ELSE NoFail],
                   out |-> [res |-> w.res, ctx |-> w.ctx, errpath |-> w.errpath,
                            log |-> w.log]]
       /\ cmd' = NoCmd
       /\ budget' = [budget EXCEPT !.ops = @ + 1, !.writes = @ + 1]

\* A call of cs01_path(None, Some(start)).
Locate ==
  \E start \in Starts :
    /\ budget.ops < MaxOps
    /\ fs' = fs
    /\ prev' = fs
    /\ last' = [op |-> "locate", args |-> [start |-> start],
                out |-> cs01_path(fs, "", PathFrom(start))]
    /\ budget' = [budget EXCEPT !.ops = @ + 1]
    /\ UNCHANGED cmd

\* The environment creates a file or a directory before any command runs.
EnvPut ==
  \E p \in EnvPuts :
    /\ budget.env < MaxEnv
    /\ budget.ops = 0
    /\ p.loc \notin DOMAIN fs
    /\ Front(p.loc) \in DOMAIN fs
    /\ fs[Front(p.loc)].kind = "dir"
    /\ fs' = Put(fs, p.loc, p.e)
    /\ prev' = fs
    /\ last' = [op |-> "put", args |-> [loc |-> p.loc], out |-> <<>>]
    /\ budget' = [budget EXCEPT !.env = @ + 1]
    /\ UNCHANGED cmd

\* The environment deletes one file of a repository that init reported
\* initialized.
EnvRemove ==
  \E loc \in DOMAIN fs :
    /\ cmd.valid
    /\ cmd.res = "ok"
    /\ budget.removes < MaxRemoves
    /\ fs[loc].kind = "file"
    /\ Removable(loc)
    /\ fs' = [q \in DOMAIN fs \ {loc} |-> fs[q]]
    /\ prev' = fs
    /\ last' = [op |-> "remove", args |-> [loc |-> loc], out |-> <<>>]
    /\ cmd' = [cmd EXCEPT !.pending = @ \cup {loc}]
    /\ budget' = [budget EXCEPT !.removes = @ + 1]

Next == EarlierInit \/ InitCmd \/ ReInit \/ WriteTree \/ Locate \/ EnvPut \/ EnvRemove

Spec == Init /\ [][Next]_vars

(***************************************************************************)
(* The serializer on its own: obj_to_str applied to a configuration drawn  *)
(* from the values a caller can build with serde_json.                     *)
(***************************************************************************)

\* Values of settings: every JSON type, strings with a quote and with a line
\* break among them.
Values ==
  {JBool(TRUE), JBool(FALSE), JNumber("123"), JNull,
   JString(<<"https://example.com">>), JString(<<>>),
   JString(<<"a", "\n", "b">>), JString(<<"a", "\"">>),
   JObject(<<Member("k", JString(<<"a", "\"">>)), Member("n", JNumber("1"))>>),
   JObject(<<>>),
   JArray(<<JNumber("1"), JString(<<"a">>)>>)}

SettingLists ==
  {<<>>}
    \cup {<<Member("url", v)>> : v \in Values}
    \cup {<<Member("id", JNumber("123")), Member("active", v)>> : v \in Values}

NotObjects == {JString(<<"x">>), JNumber("123"), JBool(TRUE), JNull, JArray(<<>>)}

SubsectionValues == {JObject(l) : l \in SettingLists} \cup NotObjects

BareSettings == JObject(<<Member("bare", JBool(FALSE))>>)

SubsectionLists ==
  {<<>>}
    \cup {<<Member(n, v)>> : n \in {"", "origin"}, v \in SubsectionValues}
    \cup {<<Member("", BareSettings), Member("origin", v)>> : v \in SubsectionValues}
    \cup {<<Member("origin", v), Member("", BareSettings)>> : v \in NotObjects}

SectionValues == {JObject(l) : l \in SubsectionLists} \cup NotObjects

CoreSection == JObject(<<Member("", BareSettings)>>)

Configs ==
  NotObjects
    \cup {JObject(<<>>)}
    \cup {JObject(<<Member("remote", v)>>) : v \in SectionValues}
    \cup {JObject(<<Member("core", CoreSection), Member("remote", v)>>) : v \in SectionValues}
    \cup {JObject(<<Member("remote", v), Member("core", CoreSection)>>) : v \in NotObjects}

SerInit ==
  /\ fs = BaseFs
  /\ prev = fs
  /\ \E c \in Configs : last = [op |-> "config", args |-> [config_obj |-> c], out |-> <<>>]
  /\ cmd = NoCmd
  /\ budget = [ops |-> 0, reruns |-> 0, env |-> 0, removes |-> 0, writes |-> 0]

\* A call of obj_to_str(config_obj).
Serialize ==
  /\ last.op = "config"
  /\ last' = [op |-> "obj_to_str", args |-> last.args, out |-> obj_to_str(last.args.config_obj)]
  /\ budget' = [budget EXCEPT !.ops = @ + 1]
  /\ UNCHANGED <<fs, prev, cmd>>

SerNext == Serialize

SerSpec == SerInit /\ [][SerNext]_vars

(***************************************************************************)
(* Properties.                                                             *)
(***************************************************************************)

\* The target of the init last run, as a location, and its arguments.
TargetLoc == LocOf(root_path_of(cmd.path))

InitTree == tree_to_write(cmd.bare, cmd.initial_branch)

\* The nodes of a tree written at prefix, each with the path the writer
\* gives it.
RECURSIVE NodesOf(_, _)
NodesOf(tree, prefix) ==
  {[path |-> prefix, kind |-> tree.kind, content |-> tree.content]}
    \cup UNION {NodesOf(tree.children[i].node, Join(prefix, tree.children[i].name))
                : i \in 1..Len(tree.children)}

InitNodes == NodesOf(InitTree, root_path_of(cmd.path))

\* The entry that materializes a node.
EntryOf(n) == IF n.kind = "File" THEN FileEntry(n.content) ELSE DirEntry

\* The repository roots by the two tests of the locator, stated on
\* locations: the directory holds a regular file config whose trimmed text
\* begins with [core], or it holds a directory .CS01.
IsBareRootAt(f, loc) ==
  /\ Append(loc, "config") \in DOMAIN f
  /\ f[Append(loc, "config")].kind = "file"
  /\ NotUtf8 \notin {f[Append(loc, "config")].content[i]
                     : i \in 1..Len(f[Append(loc, "config")].content)}
  /\ starts_with(trim(f[Append(loc, "config")].content), CoreMarker)

IsStdRootAt(f, loc) ==
  Append(loc, ".CS01") \in DOMAIN f /\ f[Append(loc, ".CS01")].kind = "dir"

\* The chain loc, parent(loc), ..., filesystem root.
Chain(loc) == {SubSeq(loc, 1, k) : k \in 0..Len(loc)}

RootsOnChain(f, loc) == {c \in Chain(loc) : IsBareRootAt(f, c) \/ IsStdRootAt(f, c)}

NearestRoot(f, loc) ==
  CHOOSE c \in RootsOnChain(f, loc) : \A d \in RootsOnChain(f, loc) : Len(d) <= Len(c)

StartLoc == LocOf(PathFrom(last.args.start))

\* C1: an init whose target holds no repository metadata and from which the
\* ascent finds a repository root other than the target is refused with an
\* error naming that root, and the filesystem after the call is the
\* filesystem before it, the target itself not created.
C1_NestedInitRefusedUntouched ==
  (/\ last.op = "init"
   /\ last.args.fail = NoFail
   /\ ~is_reinit(prev, cmd.bare, repo_dir_of(cmd.bare, root_path_of(cmd.path)))
   /\ RootsOnChain(prev, TargetLoc) # {}
   /\ NearestRoot(prev, TargetLoc) # TargetLoc)
  => (/\ last.out.res = "nested"
      /\ last.out.named = NearestRoot(prev, TargetLoc)
      /\ fs = prev)

\* C1: the refusal is reached, naming the enclosing root, with the
\* filesystem changed by the call.
C1_RefusedAfterCreatingTarget ==
  /\ last.op = "init"
  /\ last.out.res = "nested"
  /\ last.out.named = NearestRoot(prev, TargetLoc)
  /\ TargetLoc \notin DOMAIN prev
  /\ TargetLoc \in DOMAIN fs

\* The file of the layout that stands at a location, if any.
LayoutFilesAt(loc) == {n \in InitNodes : n.kind = "File" /\ LocOf(n.path) = loc}

\* C2: after a successful init, one file of the layout deleted and the same
\* init run again, the second run succeeds and the filesystem is the one
\* before it with that file back, holding its desired content: nothing
\* else is created, rewritten or removed.
C2_ReinitRestoresOnlyDeletedFile ==
  (last.op = "init" /\ cmd.prior = "ok" /\ Cardinality(cmd.removed) = 1)
  => \A loc \in cmd.removed : \A n \in LayoutFilesAt(loc) :
       last.out.res = "ok" /\ fs = Put(prev, loc, FileEntry(n.content))

C2_DeletedFileRestored ==
  /\ last.op = "init"
  /\ cmd.prior = "ok"
  /\ last.out.res = "ok"
  /\ \E loc \in cmd.removed :
       /\ cmd.removed = {loc}
       /\ LayoutFilesAt(loc) # {}
       /\ loc \notin DOMAIN prev
       /\ loc \in DOMAIN fs
       /\ fs[loc].content # <<>>

\* C3: a write with overwrite=false leaves what stands at the path of a File
\* node as it was, whatever it holds; an init, fresh or repeated, under any
\* branch name, leaves every file that existed before it unmodified.
C3_NoOverwriteKeepsExisting ==
  /\ (last.op = "write" /\ ~last.args.overwrite)
       => \A n \in NodesOf(Trees[last.args.tree], PathFrom(last.args.base)) :
            (n.kind = "File" /\ exists(prev, n.path))
              => \E at \in {canonicalize(prev, n.path).loc} :
                   at \in DOMAIN fs /\ fs[at] = prev[at]
  /\ last.op = "init"
       => \A q \in DOMAIN prev : prev[q].kind = "file" => q \in DOMAIN fs /\ fs[q] = prev[q]

C3_ExistingFileWithOtherContentKept ==
  /\ last.op = "write"
  /\ ~last.args.overwrite
  /\ ~last.args.dry_run
  /\ last.out.res = "ok"
  /\ fs # prev
  /\ \E n \in NodesOf(Trees[last.args.tree], PathFrom(last.args.base)) :
       /\ n.kind = "File"
       /\ is_file(prev, n.path)
       /\ prev[canonicalize(prev, n.path).loc].content # n.content

\* C4: once an init has succeeded, the same init run again succeeds and
\* leaves the paths and every content as they were.
C4_ReinitIdempotent ==
  (last.op = "init" /\ cmd.prior = "ok" /\ cmd.removed = {})
  => (last.out.res = "ok" /\ fs = prev)

C4_SecondRunOfFreshInit ==
  /\ last.op = "init"
  /\ cmd.prior = "ok"
  /\ cmd.removed = {}
  /\ cmd.priorWrote # {}
  /\ last.out.reinit
  /\ budget.reruns >= 1

\* C5: a write with dry_run=true returns success and leaves the filesystem
\* as it was, for every tree, base path, overwrite and prior state.
C5_DryRunChangesNothing ==
  (last.op = "write" /\ last.args.dry_run) => (last.out.res = "ok" /\ fs = prev)

C5_DryRunOverMissingBase ==
  /\ last.op = "write"
  /\ last.args.dry_run
  /\ last.args.overwrite
  /\ last.args.tree = "t2"
  /\ ~exists(prev, PathFrom(last.args.base))

\* C6: locate returns the nearest directory on the chain start,
\* parent(start), ..., filesystem root that passes the bare test or the
\* metadata-folder test, and nothing exactly when no directory of the chain
\* passes either.
C6_LocateNearestOnChain ==
  last.op = "locate"
  => /\ last.out.some <=> RootsOnChain(fs, StartLoc) # {}
     /\ last.out.some
          => canonicalize(fs, last.out.path) = [ok |-> TRUE, loc |-> NearestRoot(fs, StartLoc)]

C6_RootAboveRelativeStartMissed ==
  /\ last.op = "locate"
  /\ ~IsAbsolute(PathFrom(last.args.start))
  /\ RootsOnChain(fs, StartLoc) # {}
  /\ ~last.out.some

\* C7: from a start directory at any depth under a directory R that holds
\* the metadata folder, no nearer root in between, locate returns R, the
\* start given as an absolute or as a relative path.
C7_LocateFromAnyDepth ==
  (/\ last.op = "locate"
   /\ is_dir(fs, PathFrom(last.args.start))
   /\ RootsOnChain(fs, StartLoc) # {}
   /\ IsStdRootAt(fs, NearestRoot(fs, StartLoc)))
  => (/\ last.out.some
      /\ canonicalize(fs, last.out.path) = [ok |-> TRUE, loc |-> NearestRoot(fs, StartLoc)])

C7_RelativeStartInsideRepository ==
  /\ last.op = "locate"
  /\ last.args.start = "n"
  /\ is_dir(fs, PathFrom(last.args.start))
  /\ IsStdRootAt(fs, <<"r">>)
  /\ ~IsStdRootAt(fs, Cwd)
  /\ ~last.out.some

\* The layout of the claim, relative to the metadata location: each entry
\* with its kind and, where the claim fixes it, its content.
ClaimedLayout(b) ==
  {[rel |-> <<"HEAD">>, kind |-> "file", fixed |-> TRUE,
    content |-> <<"ref: refs/heads/", b, "\n">>],
   [rel |-> <<"config">>, kind |-> "file", fixed |-> FALSE, content |-> <<>>],
   [rel |-> <<"description">>, kind |-> "file", fixed |-> FALSE, content |-> <<>>],
   [rel |-> <<"hooks">>, kind |-> "dir", fixed |-> TRUE, content |-> <<>>],
   [rel |-> <<"info">>, kind |-> "dir", fixed |-> TRUE, content |-> <<>>],
   [rel |-> <<"info", "exclude">>, kind |-> "file", fixed |-> FALSE, content |-> <<>>],
   [rel |-> <<"objects">>, kind |-> "dir", fixed |-> TRUE, content |-> <<>>],
   [rel |-> <<"objects", "info">>, kind |-> "dir", fixed |-> TRUE, content |-> <<>>],
   [rel |-> <<"objects", "pack">>, kind |-> "dir", fixed |-> TRUE, content |-> <<>>],
   [rel |-> <<"refs">>, kind |-> "dir", fixed |-> TRUE, content |-> <<>>],
   [rel |-> <<"refs", "heads">>, kind |-> "dir", fixed |-> TRUE, content |-> <<>>],
   [rel |-> <<"refs", "tags">>, kind |-> "dir", fixed |-> TRUE, content |-> <<>>],
   [rel |-> <<"refs", "heads", b>>, kind |-> "file", fixed |-> TRUE,
    content |-> <<"ref: refs/heads/", b>>]}
    \cup {[rel |-> <<"hooks", sample_hooks[i]>>, kind |-> "file", fixed |-> TRUE,
           content |-> <<>>] : i \in 1..Len(sample_hooks)}

\* The locations the claim puts under the directory D.
ClaimedUnder(D, bare, b) ==
  IF bare THEN {D \o e.rel : e \in ClaimedLayout(b)}
  ELSE {Append(D, ".CS01")} \cup {Append(D, ".CS01") \o e.rel : e \in ClaimedLayout(b)}

EmptyDir(f, D) ==
  /\ D \in DOMAIN f
  /\ f[D].kind = "dir"
  /\ \A q \in DOMAIN f : IsPrefix(D, q) => q = D

\* C8: a successful init into an empty directory D creates exactly the
\* entries of the layout: HEAD, config, description, the 14 empty hooks,
\* info/exclude, objects/info, objects/pack, refs/tags and refs/heads/<b>,
\* with the contents the layout fixes, under D/.CS01 or, bare, under D.
C8_FreshInitLayout ==
  (last.op = "init" /\ last.out.res = "ok" /\ EmptyDir(prev, TargetLoc))
  => /\ {q \in DOMAIN fs : IsPrefix(TargetLoc, q) /\ q # TargetLoc}
          = ClaimedUnder(TargetLoc, cmd.bare, cmd.initial_branch)
     /\ \A e \in ClaimedLayout(cmd.initial_branch) :
          \E at \in {LocOf(repo_dir_of(cmd.bare, root_path_of(cmd.path))) \o e.rel} :
            /\ at \in DOMAIN fs
            /\ fs[at].kind = e.kind
            /\ e.fixed => fs[at].content = e.content

C8_EmptyBranchNameAccepted ==
  /\ last.op = "init"
  /\ last.out.res = "ok"
  /\ EmptyDir(prev, TargetLoc)
  /\ cmd.initial_branch = ""
  /\ \A q \in DOMAIN fs :
       IsPrefix(LocOf(repo_dir_of(cmd.bare, root_path_of(cmd.path))) \o <<"refs", "heads">>, q)
         => fs[q].kind = "dir"

\* The run before failed on the operation made to fail, which succeeding it
\* had succeeded, and it got as far as writing the tree: it left something
\* below the target directory.
FailedPartWay ==
  /\ cmd.prior = "io"
  /\ cmd.priorInj
  /\ cmd.priorClean = "ok"
  /\ cmd.priorWrote \ {TargetLoc} # {}

\* C9: after an init that failed part-way through writing on an I/O error
\* that does not recur, the same init run again is not refused, every node
\* of the layout stands at its path, what it creates is the layout's, and
\* everything the failed run wrote is as that run left it.
C9_RerunAfterFailureCompletes ==
  (last.op = "init" /\ FailedPartWay)
  => /\ last.out.res = "ok"
     /\ \A n \in InitNodes : exists(fs, n.path)
     /\ \A q \in cmd.priorWrote : q \in DOMAIN fs /\ fs[q] = prev[q]
     /\ \A q \in Changed(prev, fs) :
          /\ q \notin DOMAIN prev
          /\ \E n \in InitNodes : LocOf(n.path) = q /\ fs[q] = EntryOf(n)

C9_PartialTreeCompleted ==
  /\ last.op = "init"
  /\ FailedPartWay
  /\ \E q \in cmd.priorWrote : prev[q].kind = "file"
  /\ last.out.res = "ok"
  /\ fs # prev

\* C10 as stated: whatever the options and the prior state, the directory
\* of a Directory node stands as a directory when each of its children
\* starts being processed.
C10_DirectoryStandsForEveryChild ==
  last.op \in {"write", "init"} => \A e \in last.out.log : e.at = "dir"

\* C10: with dry_run=false, when a child of a Directory node starts being
\* processed the node's path exists; it is a directory unless something that
\* is no directory stood at that path when the node itself was reached.
C10_PathExistsForEveryChild ==
  (last.op = "init" \/ (last.op = "write" /\ ~last.args.dry_run))
  => \A e \in last.out.log :
       /\ e.at \in {"dir", "file"}
       /\ e.at = "file" => e.reach = "file"

C10_ChildOfCreatedDirectory ==
  /\ last.op = "write"
  /\ ~last.args.dry_run
  /\ \E e \in last.out.log : e.reach = "none" /\ e.at = "dir"

\* The nodes of the tree of the write last run, at the paths the writer
\* gives them.
WrittenNodes == NodesOf(Trees[last.args.tree], PathFrom(last.args.base))

\* C11: after a successful write with overwrite=true and dry_run=false, the
\* path of each File node holds that node's content and the path of each
\* Directory node is a directory, whatever stood there before.
C11_OverwriteMaterializesTree ==
  (last.op = "write" /\ last.args.overwrite /\ ~last.args.dry_run /\ last.out.res = "ok")
  => \A n \in WrittenNodes :
       IF n.kind = "File"
         THEN is_file(fs, n.path) /\ fs[canonicalize(fs, n.path).loc].content = n.content
       ELSE is_dir(fs, n.path)

\* C11: a write with overwrite=true reports success while a regular file
\* stands at the path of a Directory node.
C11_FileStandsForDirectoryNode ==
  /\ last.op = "write"
  /\ last.args.overwrite
  /\ ~last.args.dry_run
  /\ last.out.res = "ok"
  /\ \E n \in WrittenNodes : n.kind = "Directory" /\ is_file(fs, n.path)

\* C12: every error a write returns carries the path of the filesystem
\* operation that failed.
C12_WriteErrorCarriesPath ==
  (last.op = "write" /\ last.out.res = "io") => last.out.ctx

\* C12: a write fails at the creation of a File node's parent directory and
\* its error carries no path.
C12_ParentCreationErrorWithoutPath ==
  /\ last.op = "write"
  /\ last.out.res = "io"
  /\ ~last.out.ctx
  /\ \E n \in WrittenNodes : n.kind = "File" /\ Parent(n.path) = last.out.errpath

\* Repository metadata stands at the target: the metadata folder for a
\* standard target; HEAD, objects or a config that marks a bare root for a
\* bare one.
MetadataPresent(f, bare, target) ==
  IF bare
    THEN \/ Append(target, "HEAD") \in DOMAIN f
         \/ Append(target, "objects") \in DOMAIN f
         \/ IsBareRootAt(f, target)
  ELSE Append(target, ".CS01") \in DOMAIN f

\* C13: a successful init reports "Reinitialized existing" exactly when
\* repository metadata stood at the target before the call, a bare target's
\* config alone included, and "Initialized empty" otherwise; it reports
\* "bare" exactly when the bare flag is set, "standard" otherwise.
C13_MessageTellsRepairFromFresh ==
  (last.op = "init" /\ last.out.res = "ok")
  => /\ last.out.action = (IF MetadataPresent(prev, cmd.bare, TargetLoc)
                             THEN "Reinitialized existing" ELSE "Initialized empty")
     /\ last.out.repo_type = (IF cmd.bare THEN "bare" ELSE "standard")

\* C13: a bare init over a directory that holds a bare repository's config
\* and nothing else succeeds and reports "Initialized empty".
C13_ConfigAloneReportedEmpty ==
  /\ last.op = "init"
  /\ last.out.res = "ok"
  /\ cmd.bare
  /\ IsBareRootAt(prev, TargetLoc)
  /\ Append(TargetLoc, "HEAD") \notin DOMAIN prev
  /\ Append(TargetLoc, "objects") \notin DOMAIN prev
  /\ last.out.action = "Initialized empty"

\* The four conditions under which a configuration is invalid.
TopLevelNotObject(c) == c.t # "object"

TopLevelEmpty(c) == c.t = "object" /\ c.items = <<>>

SomeSectionNotObject(c) ==
  c.t = "object" /\ \E i \in DOMAIN c.items : c.items[i].v.t # "object"

SomeSubsectionNotObject(c) ==
  /\ c.t = "object"
  /\ \E i \in DOMAIN c.items :
       /\ c.items[i].v.t = "object"
       /\ \E j \in DOMAIN c.items[i].v.items : c.items[i].v.items[j].v.t # "object"

InvalidConfig(c) ==
  \/ TopLevelNotObject(c)
  \/ TopLevelEmpty(c)
  \/ SomeSectionNotObject(c)
  \/ SomeSubsectionNotObject(c)

RECURSIVE LinesOf(_, _)
LinesOf(text, line) ==
  IF text = <<>> THEN (IF line = <<>> THEN <<>> ELSE <<line>>)
  ELSE IF Head(text) = "\n" THEN <<line>> \o LinesOf(Tail(text), <<>>)
  ELSE LinesOf(Tail(text), Append(line, Head(text)))

\* The lines the serializer is to produce for a valid configuration.
HeaderLine(section, subsection) ==
  IF subsection = "" THEN <<"[", section, "]">>
  ELSE <<"[", section, " \"", subsection, "\"", "]">>

ValueText(v) == IF v.t = "string" THEN v.s ELSE to_json(v)

SettingLines(settings) ==
  [k \in DOMAIN settings |-> <<"  ", settings[k].k, " = ">> \o ValueText(settings[k].v)]

RECURSIVE SubsectionLines(_, _, _)
SubsectionLines(section, subsections, j) ==
  IF j > Len(subsections) THEN <<>>
  ELSE <<HeaderLine(section, subsections[j].k)>>
       \o SettingLines(subsections[j].v.items)
       \o SubsectionLines(section, subsections, j + 1)

RECURSIVE ExpectedLines(_, _)
ExpectedLines(sections, i) ==
  IF i > Len(sections) THEN <<>>
  ELSE SubsectionLines(sections[i].k, sections[i].v.items, 1)
       \o ExpectedLines(sections, i + 1)

\* C15: for every valid configuration the text consists of one header line
\* per (section, subsection) pair in the container's order, each followed
\* at once by one line "  key = value" per setting in the container's order,
\* and of no other line; the value is the string verbatim, true or false,
\* the decimal number, or the compact JSON of an object.
C15_OneLinePerHeaderAndSetting ==
  (last.op = "obj_to_str" /\ last.out.ok)
  => LinesOf(last.out.text, <<>>) = ExpectedLines(last.args.config_obj.items, 1)

\* C15: a valid configuration has been rendered into more lines than it has
\* headers and settings.
C15_SettingSpreadOverTwoLines ==
  /\ last.op = "obj_to_str"
  /\ last.out.ok
  /\ Len(LinesOf(last.out.text, <<>>)) > Len(ExpectedLines(last.args.config_obj.items, 1))

\* Two trees hold the same entries: as maps from names to nodes, whatever
\* the order their maps iterate in.
RECURSIVE SameTree(_, _)
SameTree(a, b) ==
  /\ a.kind = b.kind
  /\ a.content = b.content
  /\ {a.children[i].name : i \in DOMAIN a.children}
       = {b.children[j].name : j \in DOMAIN b.children}
  /\ Len(a.children) = Len(b.children)
  /\ \A i \in DOMAIN a.children : \A j \in DOMAIN b.children :
       a.children[i].name = b.children[j].name
         => SameTree(a.children[i].node, b.children[j].node)

\* C16: for every bare flag and every branch name, the tree init hands to
\* the writer is the tree build_repo_tree returns for the same arguments.
C16_InitTreeIsBuiltTree ==
  last.op = "init"
  => /\ build_repo_tree(cmd.bare, cmd.initial_branch).ok
     /\ SameTree(InitTree, build_repo_tree(cmd.bare, cmd.initial_branch).tree)

\* C16: a standard init with a branch name other than the default has
\* handed its tree to the writer and the writer has written it.
C16_StandardTreeWritten ==
  /\ last.op = "init"
  /\ last.out.res = "ok"
  /\ ~cmd.bare
  /\ cmd.initial_branch = "dev"
  /\ cmd.wrote # {}

\* The metadata location of the init last run.
MetadataLoc == LocOf(repo_dir_of(cmd.bare, root_path_of(cmd.path)))

\* C18: whatever the branch name, the empty name and names holding "/" or
\* ".." included, everything init creates or writes lies inside the metadata
\* location, apart from the target and its missing ancestors.
C18_InitWritesInsideMetadata ==
  last.op = "init"
  => \A q \in Changed(prev, fs) : IsPrefix(MetadataLoc, q) \/ IsPrefix(q, TargetLoc)

\* C18: an init whose branch name is an absolute path has created a file
\* that lies neither inside the metadata location nor on the way to the
\* target.
C18_BranchFileOutsideMetadata ==
  /\ last.op = "init"
  /\ IsAbsolute(PathFrom(cmd.initial_branch))
  /\ \E q \in DOMAIN fs \ DOMAIN prev :
       /\ q = LocOf(PathFrom(cmd.initial_branch))
       /\ fs[q] = FileEntry(branch_ref(cmd.initial_branch))
       /\ ~IsPrefix(MetadataLoc, q)
       /\ ~IsPrefix(q, TargetLoc)

\* C19: after every successful init, whatever stood at the target before
\* (nothing, unrelated user files such as a file named config, a damaged
\* repository), the locator started at the target returns the target; for a
\* bare repository because the target's config marks a bare root.
C19_LocateFindsInitTarget ==
  (last.op = "init" /\ last.out.res = "ok")
  => /\ \E r \in {cs01_path(fs, "", root_path_of(cmd.path))} :
          r.some /\ LocOf(r.path) = TargetLoc
     /\ cmd.bare => HasBareConfig(fs, root_path_of(cmd.path))

\* C19: a bare init over a directory that held a user's file named config
\* has succeeded, the file is as it was, and the locator started at the
\* target finds no repository.
C19_UserConfigHidesBareRepository ==
  /\ last.op = "init"
  /\ last.out.res = "ok"
  /\ cmd.bare
  /\ Append(TargetLoc, "config") \in DOMAIN prev
  /\ fs[Append(TargetLoc, "config")] = FileEntry(UserText)
  /\ Append(TargetLoc, "HEAD") \in DOMAIN fs \ DOMAIN prev
  /\ ~cs01_path(fs, "", root_path_of(cmd.path)).some

\* The directories the locator recognizes as repository roots.
RootsIn(f) == {q \in DOMAIN f : f[q].kind = "dir" /\ (IsBareRootAt(f, q) \/ IsStdRootAt(f, q))}

\* Nothing but init calls has touched a filesystem that held no repository:
\* no seeded repository (which stands at /r as an empty metadata folder),
\* no file put or removed by the environment, no direct call of the writer.
OnlyInits ==
  /\ budget.env = 0
  /\ budget.removes = 0
  /\ budget.writes = 0
  /\ ~(IsStdRootAt(fs, <<"r">>) /\ Append(<<"r">>, ".CS01") \o <<"HEAD">> \notin DOMAIN fs)

\* C17: starting from a filesystem without a repository, after any
\* sequence of init calls no recognized repository root has a strict
\* ancestor that is a recognized repository root.
C17_NoRootInsideRoot ==
  OnlyInits
  => \A q \in RootsIn(fs) : \A a \in Chain(q) \ {q} : a \notin RootsIn(fs)

\* C17: after an init at /r, an init of the relative target n from the
\* working directory /r/w has succeeded as a fresh initialization, and the
\* new root /r/w/n lies inside the repository rooted at /r.
C17_RelativeTargetNestedInRepository ==
  /\ OnlyInits
  /\ last.op = "init"
  /\ last.out.res = "ok"
  /\ last.out.action = "Initialized empty"
  /\ ~IsAbsolute(root_path_of(cmd.path))
  /\ TargetLoc \in RootsIn(fs)
  /\ \E a \in Chain(TargetLoc) \ {TargetLoc} : a \in RootsIn(prev)

====
